---- MODULE Spec2Model ----
(***************************************************************************)
(* CRID materialization (backend/scripts/cms_quality_ingest/               *)
(* materialize_crid.py): the command-line run of main() against the        *)
(* marketplace database, and the SQL transform of materialize_crid()       *)
(* evaluated stage by stage (one operator per common table expression).    *)
(*                                                                         *)
(* Numbers.  A SQL value is <<>> (NULL) or <<n>>.  Measure values, weights *)
(* and composites are whole numbers n.  Quotients and square roots         *)
(* (means, standard deviations, z-scores, CRID, volatility) are carried in *)
(* fixed point, n counting 1/Unit; a NUMERIC(12,6) column keeps fewer      *)
(* digits than the expression stored into it, here 1/ColUnit.              *)
(* completeness_pct, NUMERIC(5,2), counts hundredths of a percent.         *)
(***************************************************************************)
EXTENDS Integers, Sequences, FiniteSets, TLC

VARIABLES
    mds,          \* gold.nh_quality_mds: (ccn, extract_id) -> measure_code -> row or NoRow
    claims,       \* gold.nh_quality_claims: same shape
    defs,         \* gold.nh_measure_definitions: set of rows
    crid_monthly, \* metrics.crid_monthly as committed: NoTable or [rows: set of records]
    pc,           \* where main() is
    args,         \* argparse namespace of the current run
    now,          \* database clock, NOW()
    executed,     \* SQL statements the current run has executed
    tableAtStart, \* crid_monthly when the current run started
    history,      \* the materializations that inserted and committed: <<[window, output]>>
    started,      \* number of runs started
    weights_read, \* what each read of gold.nh_measure_definitions by the current run returned
    validation,   \* what run_validation() of the current run reported
    staging,      \* staging.nh_quality_mds_raw and staging.nh_quality_claims_raw
    extracts,     \* gold.nh_quality_extracts: the extract_ids recorded as loaded
    ingest,       \* the ingestion run: its arguments, files, work list and task queue
    worker        \* the threads that call process_month, each with its thread-local connection

vars == <<mds, claims, defs, crid_monthly, pc, args, now, executed, tableAtStart,
          history, started, weights_read, validation, staging, extracts, ingest, worker>>

\* what ingest_fast.py works on besides the gold tables
ingestVars == <<staging, extracts, ingest, worker>>

----------------------------------------------------------------------------
(* Bounds of the model *)

NumBulk == 10      \* facilities of state "AA" besides the probe facility
NumPeriods == 5    \* extracts (months) an input snapshot may hold
MaxRuns == 2       \* runs of main() in one behaviour
ColUnit == 10      \* a stored NUMERIC(12,6) column counts 1/ColUnit
GuardDigits == 10  \* a computed expression counts 1/(ColUnit * GuardDigits)
NumMonths == 3     \* months with files in an ingestion run
NumWorkers == 2    \* threads of an ingestion run
MaxAppends == 2    \* later months loaded between runs of the materialization

Unit == ColUnit * GuardDigits

(* Program constants *)

MIN_COHORT == 10          \* s.facility_count >= 10, COALESCE(s.facility_count, 0) < 10
NUM_MEASURES == 6         \* measures_present * 100.0 / 6
DEFAULT_WINDOW == 3       \* --volatility-window default
MAX_WORKERS == 4          \* args.workers = min(max(args.workers, 1), 4)
WINDOW_CHOICES == {3, 4}  \* choices=[3, 4]; volatility_window not in (3, 4)

MDS_CODES == {"410", "453", "407", "409"}
CLAIMS_CODES == {"551", "552"}
CRID_CODES == MDS_CODES \cup CLAIMS_CODES
OTHER_CODE == "401"       \* a measure of the gold tables that CRID does not use

----------------------------------------------------------------------------
(* SQL values and three-valued logic as CASE WHEN / WHERE see it *)

NULL == <<>>
V(n) == <<n>>
IsNull(x) == x = NULL
NotNull(x) == x # NULL

Abs(n) == IF n < 0 THEN -n ELSE n

\* round(a / b) for b > 0, ties away from zero (NUMERIC rounding)
RoundDiv(a, b) ==
    IF a >= 0 THEN (2 * a + b) \div (2 * b) ELSE -((2 * (-a) + b) \div (2 * b))

RECURSIVE SqrtSearch(_, _, _)
SqrtSearch(n, lo, hi) ==
    IF lo >= hi THEN lo
    ELSE LET mid == (lo + hi + 1) \div 2
         IN IF mid * mid <= n THEN SqrtSearch(n, mid, hi) ELSE SqrtSearch(n, lo, mid - 1)

\* sqrt(n) rounded to the nearest integer, n >= 0
ISqrt(n) ==
    LET r == SqrtSearch(n, 0, 46340)
    IN IF n - r * r > r THEN r + 1 ELSE r

RECURSIVE SumSeq(_)
SumSeq(s) == IF s = <<>> THEN 0 ELSE Head(s) + SumSeq(Tail(s))

RECURSIVE SumSqSeq(_)
SumSqSeq(s) == IF s = <<>> THEN 0 ELSE Head(s) * Head(s) + SumSqSeq(Tail(s))

\* a * b, NULL if either is
SqlMul(a, b) == IF IsNull(a) \/ IsNull(b) THEN NULL ELSE V(a[1] * b[1])
SqlAdd(a, b) == IF IsNull(a) \/ IsNull(b) THEN NULL ELSE V(a[1] + b[1])
SqlSub(a, b) == IF IsNull(a) \/ IsNull(b) THEN NULL ELSE V(a[1] - b[1])
\* a / b of two fixed-point values (b # 0 where the code divides)
SqlDiv(a, b) == IF IsNull(a) \/ IsNull(b) THEN NULL ELSE V(RoundDiv(a[1] * Unit, b[1]))
\* as SqlLt, with a comparison to NULL taken as true
SqlLtNullTrue(a, n) == IsNull(a) \/ a[1] < n

\* a comparison is true only when both sides are non-NULL
SqlGt(a, n) == NotNull(a) /\ a[1] > n
SqlLt(a, n) == NotNull(a) /\ a[1] < n
SqlAbs(a) == IF IsNull(a) THEN NULL ELSE V(Abs(a[1]))

\* a whole number as a fixed-point value
ToFixed(a) == IF IsNull(a) THEN NULL ELSE V(a[1] * Unit)

\* AVG(x) over the non-NULL members of a sequence of fixed-point values
SqlAvg(s) == IF s = <<>> THEN NULL ELSE V(RoundDiv(SumSeq(s), Len(s)))

\* as SqlStddevPop, the sample standard deviation: NULL for a single value
SqlStddevSamp(s) ==
    IF Len(s) <= 1 THEN NULL
    ELSE LET n == Len(s)
             d == n * SumSqSeq(s) - SumSeq(s) * SumSeq(s)
         IN V(ISqrt(d \div (n * (n - 1))))

\* STDDEV_POP(x): sqrt(N * sum(x^2) - sum(x)^2) / N over the non-NULL values
SqlStddevPop(s) ==
    IF s = <<>> THEN NULL
    ELSE LET n == Len(s)
             d == n * SumSqSeq(s) - SumSeq(s) * SumSeq(s)
         IN V(RoundDiv(ISqrt(d), n))

\* the value an expression has once stored in a NUMERIC(12,6) column
ToColumn(a) == IF IsNull(a) THEN NULL ELSE V(RoundDiv(a[1], GuardDigits))
\* a whole number stored in a NUMERIC(12,6) column
WholeToColumn(a) == IF IsNull(a) THEN NULL ELSE V(a[1] * ColUnit)

----------------------------------------------------------------------------
(* The input snapshot: the gold tables as the ingestion leaves them.       *)
(* gold.nh_quality_mds and gold.nh_quality_claims are unique on            *)
(* (extract_id, ccn, measure_code); state is LEFT(ccn, 2); as_of_date is   *)
(* the date of the extract.                                                *)

NoRow == <<>>
Row(value, sup) == <<[value |-> value, has_suppression |-> sup]>>

Extracts == 1 .. NumPeriods           \* extract_id, ordered by extract_id::int
BulkCcn(i) == <<"AA", i>>
ProbeCcn == <<"AA", NumBulk + 1>>
SmallCcn == <<"BB", 1>>
Ccns == {BulkCcn(i) : i \in 1 .. NumBulk} \cup {ProbeCcn, SmallCcn}
Keys == Ccns \X Extracts              \* (ccn, extract_id)

StateOf(ccn) == ccn[1]                \* LEFT(ccn, 2)

\* how the probe facility reports in one extract: a kind, and the measure it is about
St(kind, code) == [kind |-> kind, code |-> code]
ProbeStatuses ==
    {St(k, "") : k \in {"complete", "absent", "claims_only", "mds_only", "other_only"}}
    \cup {St("missing", c) : c \in CRID_CODES}
    \cup {St("null", "410"), St("suppressed", "453"), St("supval", "551")}
WindowStatuses == {St("complete", ""), St("missing", "552"), St("absent", "")}
Patterns == {"flat", "spread"}
WeightConfigs == {"ok", "missing_410", "unused_551", "dup_410", "empty"}

\* what a facility reports for one measure in one extract
BulkValue(pat, i, p, code) ==
    IF code \in {"410", "551"}
    THEN (IF pat = "flat" THEN 2
          ELSE IF code = "410" THEN (i + p) % 3 ELSE (2 * i + p) % 3)
    ELSE 1

ProbeValue(p, code) ==
    IF code = "410" THEN (p * p) % 5 ELSE IF code = "551" THEN p % 2 ELSE 1

ProbeRow(status, p, code) ==
    LET val == Row(V(ProbeValue(p, code)), FALSE)
    IN CASE status.kind = "absent" -> NoRow
         [] status.kind = "other_only" ->
               IF code = OTHER_CODE THEN Row(V(1), FALSE) ELSE NoRow
         [] code = OTHER_CODE -> NoRow
         [] status.kind = "complete" -> val
         [] status.kind = "claims_only" -> IF code \in CLAIMS_CODES THEN val ELSE NoRow
         [] status.kind = "mds_only" -> IF code \in MDS_CODES THEN val ELSE NoRow
         [] status.kind = "missing" -> IF code = status.code THEN NoRow ELSE val
         [] status.kind = "null" -> IF code = status.code THEN Row(NULL, FALSE) ELSE val
         [] status.kind = "suppressed" -> IF code = status.code THEN Row(NULL, TRUE) ELSE val
         [] status.kind = "level_claims" ->   \* complete, its claims measures as the flat bulk's
               IF code \in CLAIMS_CODES THEN Row(V(BulkValue("flat", 0, p, code)), FALSE)
               ELSE val
         [] OTHER ->   \* "supval": a value is reported and flagged suppressed
               Row(V(ProbeValue(p, code)), code = status.code)

\* the facility of the small state is complete in odd extracts only
SmallRow(p, code) ==
    IF code = OTHER_CODE \/ (p % 2 = 0 /\ code = "409") THEN NoRow ELSE Row(V(1), FALSE)

SourceRow(sc, ccn, p, code) ==
    IF p > sc.np THEN NoRow
    ELSE IF ccn = ProbeCcn THEN ProbeRow(sc.probe[p], p, code)
    ELSE IF ccn = SmallCcn THEN SmallRow(p, code)
    ELSE IF ccn[2] <= sc.nb /\ code # OTHER_CODE
         THEN Row(V(BulkValue(IF code \in MDS_CODES THEN sc.qpat ELSE sc.upat,
                              ccn[2], p, code)), FALSE)
         ELSE NoRow

MdsOf(sc) ==
    [k \in Keys |-> [code \in MDS_CODES \cup {OTHER_CODE} |-> SourceRow(sc, k[1], k[2], code)]]
ClaimsOf(sc) ==
    [k \in Keys |-> [code \in CLAIMS_CODES |-> SourceRow(sc, k[1], k[2], code)]]

DefRow(code, w, used) == [measure_code |-> code, crid_weight |-> w, used_in_crid |-> used]
GoodDefs ==
    {DefRow("410", V(2), TRUE), DefRow("453", V(1), TRUE), DefRow("407", V(1), TRUE),
     DefRow("409", V(1), TRUE), DefRow("551", V(1), TRUE), DefRow("552", V(2), TRUE),
     DefRow(OTHER_CODE, NULL, FALSE)}
DefsOf(cfg) ==
    CASE cfg = "ok" -> GoodDefs
      [] cfg = "missing_410" -> GoodDefs \ {DefRow("410", V(2), TRUE)}
      [] cfg = "unused_551" ->
            (GoodDefs \ {DefRow("551", V(1), TRUE)}) \cup {DefRow("551", V(1), FALSE)}
      [] cfg = "dup_410" -> GoodDefs \cup {DefRow("410", V(3), TRUE)}
      [] OTHER -> {}

Scenario(np, nb, qpat, upat, probe, cfg) ==
    [np |-> np, nb |-> nb, qpat |-> qpat, upat |-> upat, probe |-> probe, cfg |-> cfg]

OnePeriod(status) == [p \in Extracts |-> IF p = 1 THEN status ELSE St("absent", "")]

\* one extract: the cohort at, just below and above the minimum, flat or spread
GateScenarios ==
    {Scenario(1, nb, q, u, OnePeriod(st), "ok") :
        nb \in {NumBulk - 2, NumBulk - 1, NumBulk}, q \in Patterns, u \in Patterns,
        st \in {St("complete", ""), St("missing", "410")}}
\* one extract: every way the probe facility can report
ProbeScenarios ==
    {Scenario(1, nb, "spread", "spread", OnePeriod(st), "ok") :
        nb \in {NumBulk - 1, NumBulk}, st \in ProbeStatuses}
    \cup {Scenario(1, NumBulk, "flat", "flat", OnePeriod(St("level_claims", "")), "ok")}
\* a history of extracts in which the probe facility comes, goes and is incomplete
\* between a first and a last extract in which it is complete
VaryingExtracts == {2, 3, 4}
WindowScenarios ==
    {Scenario(NumPeriods, NumBulk, "spread", "spread", pr, "ok") :
        pr \in {f \in [Extracts -> WindowStatuses] :
                    \A p \in Extracts \ VaryingExtracts : f[p] = St("complete", "")}}
\* one extract under each state of the weight table
WeightScenarios ==
    {Scenario(1, NumBulk, "spread", "spread", OnePeriod(St("complete", "")), cfg) :
        cfg \in WeightConfigs}
\* a history in which the probe facility lacks a different measure in each extract
RotatingCodes == <<"410", "453", "407", "551", "552">>
RotatingScenarios ==
    {Scenario(NumPeriods, NumBulk, "spread", "spread",
              [p \in Extracts |-> St("missing", RotatingCodes[((p - 1) % Len(RotatingCodes)) + 1])],
              "ok")}
Scenarios ==
    GateScenarios \cup ProbeScenarios \cup WindowScenarios \cup WeightScenarios
    \cup RotatingScenarios

----------------------------------------------------------------------------
(* materialize_sql, one operator per common table expression.  m, c and d  *)
(* are gold.nh_quality_mds, gold.nh_quality_claims and                     *)
(* gold.nh_measure_definitions as the statement reads them.                *)

\* a function evaluated once, over its whole domain
Table(f) == f @@ <<>>

RECURSIVE SetSum(_, _)
SetSum(S, f) ==
    IF S = {} THEN 0 ELSE LET x == CHOOSE y \in S : TRUE IN f[x] + SetSum(S \ {x}, f)

\* MAX(x) over a set of SQL values: NULL when none is non-NULL
SqlMax(S) ==
    LET vals == {x[1] : x \in {y \in S : NotNull(y)}}
    IN IF vals = {} THEN NULL ELSE V(CHOOSE v \in vals : \A w \in vals : w <= v)

\* the rows of one facility or cohort in a fixed order, as aggregates read them
RECURSIVE SeqOfKeys(_)
SeqOfKeys(S) ==
    IF S = {} THEN <<>>
    ELSE LET k == CHOOSE x \in S : \A y \in S : x[2] < y[2] \/ (x[2] = y[2] /\ x[1][2] <= y[1][2])
         IN <<k>> \o SeqOfKeys(S \ {k})

\* the non-NULL values of expr (a function of the key) over the rows keyed by ks
RECURSIVE NonNullValues(_, _)
NonNullValues(ks, expr) ==
    IF ks = <<>> THEN <<>>
    ELSE LET x == expr[Head(ks)]
         IN (IF IsNull(x) THEN <<>> ELSE <<x[1]>>) \o NonNullValues(Tail(ks), expr)

measure_weights(d) == {r \in d : r.used_in_crid = TRUE}

\* as weight_values, with every weight 1
weight_valuesUnit(d) == Table([code \in CRID_CODES |-> V(1)])

weight_values(d) ==
    Table([code \in CRID_CODES |->
        SqlMax({r.crid_weight : r \in {x \in measure_weights(d) : x.measure_code = code}})])

\* as PivotValue, with a measure that has no row read as 0
PivotValueDefaultZero(group, code) ==
    IF group[code] = NoRow THEN V(0) ELSE group[code][1].value

\* MAX(CASE WHEN measure_code = code THEN value END) over the rows of one group
PivotValue(group, code) == IF group[code] = NoRow THEN NULL ELSE group[code][1].value
\* as PivotSup, counting a measure as suppressed only when it carries no value
PivotSupWithoutValue(group, code) ==
    IF group[code] # NoRow /\ group[code][1].has_suppression /\ IsNull(group[code][1].value)
    THEN 1 ELSE 0

\* MAX(CASE WHEN measure_code = code AND has_suppression THEN 1 ELSE 0 END)
PivotSup(group, code) ==
    IF group[code] # NoRow /\ group[code][1].has_suppression THEN 1 ELSE 0

\* the groups of mds_base: WHERE measure_code IN (...) GROUP BY ccn, extract_id, ...
mds_base_keys(m) == {k \in DOMAIN m : \E code \in MDS_CODES : m[k][code] # NoRow}
mds_base(m, k) ==
    [measure |-> [code \in MDS_CODES |-> PivotValue(m[k], code)],
     sup |-> [code \in MDS_CODES |-> PivotSup(m[k], code)]]

InClaimsBase(c, k) == \E code \in CLAIMS_CODES : c[k][code] # NoRow
claims_base_keys(c) == {k \in DOMAIN c : InClaimsBase(c, k)}
claims_base(c, k) ==
    [measure |-> [code \in CLAIMS_CODES |-> PivotValue(c[k], code)],
     sup |-> [code \in CLAIMS_CODES |-> V(PivotSup(c[k], code))]]

\* a row of mds_base LEFT JOIN claims_base: the claims side is NULL without a match
JoinedClaims(c, k) ==
    IF InClaimsBase(c, k) THEN claims_base(c, k)
    ELSE [measure |-> [code \in CLAIMS_CODES |-> NULL],
          sup |-> [code \in CLAIMS_CODES |-> NULL]]

Coalesce0(x) == IF IsNull(x) THEN 0 ELSE x[1]

\* as Present, without `AND sup = 0`
PresentWithValue(f, code) == NotNull(f.measure[code])

\* measure IS NOT NULL AND sup = 0
Present(f, code) == NotNull(f.measure[code]) /\ f.sup[code] = 0

all_facilities(m, c, k) ==
    LET mb == mds_base(m, k)
        cb == JoinedClaims(c, k)
        f == [measure |-> [code \in CRID_CODES |->
                              IF code \in MDS_CODES THEN mb.measure[code] ELSE cb.measure[code]],
              sup |-> [code \in CRID_CODES |->
                              IF code \in MDS_CODES THEN mb.sup[code] ELSE Coalesce0(cb.sup[code])]]
        CountPresent == [code \in CRID_CODES |-> IF Present(f, code) THEN 1 ELSE 0]
    IN [ccn |-> k[1], extract_id |-> k[2], state |-> StateOf(k[1]),
        measure |-> f.measure,
        measures_present |-> SetSum(CRID_CODES, CountPresent),
        measures_suppressed |-> SetSum(CRID_CODES, f.sup),
        is_complete |-> \A code \in CRID_CODES : Present(f, code)]

\* as CompletenessPct, truncating instead of rounding
CompletenessPctTruncated(measures_present) ==
    V((measures_present * 100 * 100) \div NUM_MEASURES)

\* ROUND(measures_present * 100.0 / 6, 2), in hundredths of a percent
CompletenessPct(measures_present) == V(RoundDiv(measures_present * 100 * 100, NUM_MEASURES))

\* as WeightedSum, without the weights
WeightedSumUnweighted(codes, w, f) ==
    IF \E code \in codes : IsNull(f.measure[code]) \/ IsNull(w[code]) THEN NULL
    ELSE V(SetSum(codes, [code \in codes |-> f.measure[code][1]]))

\* w_a * measure_a + w_b * measure_b + ..., NULL if any factor is
RECURSIVE WeightedSum(_, _, _)
WeightedSum(codes, w, f) ==
    IF codes = {} THEN V(0)
    ELSE LET code == CHOOSE x \in codes : TRUE
         IN SqlAdd(SqlMul(w[code], f.measure[code]), WeightedSum(codes \ {code}, w, f))

with_composites(m, c, d) ==
    LET w == weight_values(d)
    IN Table([k \in mds_base_keys(m) |->
         LET f == all_facilities(m, c, k)
         IN [ccn |-> f.ccn, extract_id |-> f.extract_id, state |-> f.state,
             measure |-> f.measure,
             measures_present |-> f.measures_present,
             measures_suppressed |-> f.measures_suppressed,
             is_complete |-> f.is_complete,
             completeness_pct |-> CompletenessPct(f.measures_present),
             mds_composite |-> IF f.is_complete THEN WeightedSum(MDS_CODES, w, f) ELSE NULL,
             claims_utilization |->
                 IF f.is_complete THEN WeightedSum(CLAIMS_CODES, w, f) ELSE NULL]])

\* as state_stats, with the cohort of a state taken over all its extracts
state_statsAcrossExtracts(wc) ==
    LET complete == {k \in DOMAIN wc : wc[k].is_complete}
        groups == {<<wc[k].state, wc[k].extract_id>> : k \in complete}
    IN {LET ks == SeqOfKeys({k \in complete : wc[k].state = g[1]})
            Mds == [k \in complete |-> ToFixed(wc[k].mds_composite)]
            Claims == [k \in complete |-> ToFixed(wc[k].claims_utilization)]
        IN [state |-> g[1], extract_id |-> g[2],
            facility_count |-> V(Len(ks)),
            mds_mean |-> SqlAvg(NonNullValues(ks, Mds)),
            mds_stddev |-> SqlStddevPop(NonNullValues(ks, Mds)),
            claims_mean |-> SqlAvg(NonNullValues(ks, Claims)),
            claims_stddev |-> SqlStddevPop(NonNullValues(ks, Claims))]
        : g \in groups}

\* state_stats: WHERE is_complete = TRUE GROUP BY state, extract_id
state_stats(wc) ==
    LET complete == {k \in DOMAIN wc : wc[k].is_complete}
        groups == {<<wc[k].state, wc[k].extract_id>> : k \in complete}
    IN {LET ks == SeqOfKeys({k \in complete : wc[k].state = g[1] /\ wc[k].extract_id = g[2]})
            Mds == [k \in complete |-> ToFixed(wc[k].mds_composite)]
            Claims == [k \in complete |-> ToFixed(wc[k].claims_utilization)]
        IN [state |-> g[1], extract_id |-> g[2],
            facility_count |-> V(Len(ks)),
            mds_mean |-> SqlAvg(NonNullValues(ks, Mds)),
            mds_stddev |-> SqlStddevPop(NonNullValues(ks, Mds)),
            claims_mean |-> SqlAvg(NonNullValues(ks, Claims)),
            claims_stddev |-> SqlStddevPop(NonNullValues(ks, Claims))]
        : g \in groups}

NoStats ==
    [facility_count |-> NULL, mds_mean |-> NULL, mds_stddev |-> NULL,
     claims_mean |-> NULL, claims_stddev |-> NULL]

\* the state_stats row LEFT JOINed to a facility row: all NULL without a match
JoinedStats(stats, f) ==
    LET match == {s \in stats : s.state = f.state /\ s.extract_id = f.extract_id}
    IN IF match = {} THEN NoStats ELSE CHOOSE s \in match : TRUE

\* as ZScore, with facility_count > 10
ZScoreAboveMinimum(f, s, composite, mean, stddev) ==
    IF f.is_complete /\ SqlGt(s.facility_count, MIN_COHORT) /\ SqlGt(stddev, 0)
    THEN SqlDiv(SqlSub(ToFixed(composite), mean), stddev)
    ELSE NULL

\* (composite - mean) / stddev WHEN is_complete AND facility_count >= 10 AND stddev > 0
ZScore(f, s, composite, mean, stddev) ==
    IF f.is_complete /\ SqlGt(s.facility_count, MIN_COHORT - 1) /\ SqlGt(stddev, 0)
    THEN SqlDiv(SqlSub(ToFixed(composite), mean), stddev)
    ELSE NULL

\* as IsSmallState, without the COALESCE
IsSmallStateNoCoalesce(s) == SqlLt(s.facility_count, MIN_COHORT)

\* as IsSmallState, with <= 10
IsSmallStateAtMost(s) == Coalesce0(s.facility_count) <= MIN_COHORT

\* COALESCE(s.facility_count, 0) < 10
IsSmallState(s) == Coalesce0(s.facility_count) < MIN_COHORT

with_z_scores(wc) ==
    LET stats == state_stats(wc)
    IN Table([k \in DOMAIN wc |->
         LET f == wc[k]
             s == JoinedStats(stats, f)
         IN [f |-> f, s |-> s,
             is_small_state |-> IsSmallState(s),
             mds_z_score |-> ZScore(f, s, f.mds_composite, s.mds_mean, s.mds_stddev),
             claims_z_score |->
                 ZScore(f, s, f.claims_utilization, s.claims_mean, s.claims_stddev)]])

\* as Frame, with one row too many
FrameOneMore(keys, k, window_preceding) ==
    LET upto == {j \in keys : j[1] = k[1] /\ j[2] <= k[2]}
    IN {j \in upto : Cardinality({i \in upto : i[2] > j[2]}) <= window_preceding + 1}

\* the window frame of row k: PARTITION BY ccn ORDER BY extract_id::int
\* ROWS BETWEEN window_preceding PRECEDING AND CURRENT ROW
Frame(keys, k, window_preceding) ==
    LET upto == {j \in keys : j[1] = k[1] /\ j[2] <= k[2]}
    IN {j \in upto : Cardinality({i \in upto : i[2] > j[2]}) <= window_preceding}

ZDiff(wz, k) == SqlSub(wz[k].mds_z_score, wz[k].claims_z_score)

\* as with_crid, with the window aggregate outside the CASE
with_cridUnguarded(wz, window_preceding) ==
    Table([k \in DOMAIN wz |->
        LET r == wz[k]
            valid == NotNull(r.mds_z_score) /\ NotNull(r.claims_z_score)
            Diff == [j \in DOMAIN wz |-> ZDiff(wz, j)]
        IN [z |-> r,
            crid_value |-> IF valid THEN ZDiff(wz, k) ELSE NULL,
            crid_volatility |->
                SqlStddevPop(NonNullValues(
                    SeqOfKeys(Frame(DOMAIN wz, k, window_preceding)), Diff))]])

with_crid(wz, window_preceding) ==
    Table([k \in DOMAIN wz |->
        LET r == wz[k]
            valid == NotNull(r.mds_z_score) /\ NotNull(r.claims_z_score)
            Diff == [j \in DOMAIN wz |-> ZDiff(wz, j)]
        IN [z |-> r,
            crid_value |-> IF valid THEN ZDiff(wz, k) ELSE NULL,
            crid_volatility |->
                IF valid
                THEN SqlStddevPop(NonNullValues(
                         SeqOfKeys(Frame(DOMAIN wz, k, window_preceding)), Diff))
                ELSE NULL]])

\* ARRAY_REMOVE(ARRAY[CASE WHEN cond THEN flag END, ...], NULL)
FlagIf(cond, flag) == IF cond THEN <<flag>> ELSE <<>>

\* as Flags, without the flag of incomplete records
FlagsWithoutIncomplete(is_complete, is_small_state, crid_value, crid_volatility, mds_z, claims_z) ==
    FlagIf(is_small_state, "SMALL_STATE")
    \o FlagIf(SqlGt(crid_value, 2 * Unit), "HIGH_POSITIVE_CRID")
    \o FlagIf(SqlLt(crid_value, -2 * Unit), "HIGH_NEGATIVE_CRID")
    \o FlagIf(SqlGt(crid_value, 3 * Unit), "EXTREME_POSITIVE_CRID")
    \o FlagIf(SqlLt(crid_value, -3 * Unit), "EXTREME_NEGATIVE_CRID")
    \o FlagIf(SqlGt(SqlMul(crid_volatility, V(2)), 3 * Unit), "HIGH_VOLATILITY")
    \o FlagIf(SqlGt(SqlAbs(mds_z), 2 * Unit) /\ SqlLt(SqlAbs(claims_z), Unit), "MDS_OUTLIER")
    \o FlagIf(SqlGt(SqlAbs(claims_z), 2 * Unit) /\ SqlLt(SqlAbs(mds_z), Unit), "CLAIMS_OUTLIER")

Flags(is_complete, is_small_state, crid_value, crid_volatility, mds_z, claims_z) ==
    FlagIf(~is_complete, "INCOMPLETE_MEASURES")
    \o FlagIf(is_small_state, "SMALL_STATE")
    \o FlagIf(SqlGt(crid_value, 2 * Unit), "HIGH_POSITIVE_CRID")
    \o FlagIf(SqlLt(crid_value, -2 * Unit), "HIGH_NEGATIVE_CRID")
    \o FlagIf(SqlGt(crid_value, 3 * Unit), "EXTREME_POSITIVE_CRID")
    \o FlagIf(SqlLt(crid_value, -3 * Unit), "EXTREME_NEGATIVE_CRID")
    \o FlagIf(SqlGt(SqlMul(crid_volatility, V(2)), 3 * Unit), "HIGH_VOLATILITY")
    \o FlagIf(SqlGt(SqlAbs(mds_z), 2 * Unit) /\ SqlLt(SqlAbs(claims_z), Unit), "MDS_OUTLIER")
    \o FlagIf(SqlGt(SqlAbs(claims_z), 2 * Unit) /\ SqlLt(SqlAbs(mds_z), Unit), "CLAIMS_OUTLIER")

\* one row of INSERT INTO metrics.crid_monthly (...) SELECT ... FROM with_crid,
\* as the table's columns hold it; created_at DEFAULT NOW()
InsertRow(x, ts) ==
    LET r == x.z
        f == r.f
        s == r.s
    IN [ccn |-> f.ccn, extract_id |-> f.extract_id, state |-> f.state,
        mds_composite |-> WholeToColumn(f.mds_composite),
        claims_utilization |-> WholeToColumn(f.claims_utilization),
        mds_z_score |-> ToColumn(r.mds_z_score),
        claims_z_score |-> ToColumn(r.claims_z_score),
        crid_value |-> ToColumn(x.crid_value),
        crid_volatility |-> ToColumn(x.crid_volatility),
        completeness_pct |-> f.completeness_pct,
        measures_present |-> f.measures_present,
        measures_suppressed |-> f.measures_suppressed,
        flags |-> Flags(f.is_complete, r.is_small_state, x.crid_value, x.crid_volatility,
                        r.mds_z_score, r.claims_z_score),
        measure_score |-> [code \in CRID_CODES |-> WholeToColumn(f.measure[code])],
        state_facility_count |-> s.facility_count,
        state_mds_mean |-> ToColumn(s.mds_mean),
        state_mds_stddev |-> ToColumn(s.mds_stddev),
        state_claims_mean |-> ToColumn(s.claims_mean),
        state_claims_stddev |-> ToColumn(s.claims_stddev),
        created_at |-> ts]

\* the rows the statement inserts
InsertedRows(m, c, d, window_preceding, ts) ==
    LET wcr == with_crid(with_z_scores(with_composites(m, c, d)), window_preceding)
    IN {InsertRow(wcr[k], ts) : k \in DOMAIN wcr}

----------------------------------------------------------------------------
(* ingest_fast.py: the files of the months, the staging and gold tables,   *)
(* and process_month() statement by statement.  A table is a function of   *)
(* extract_id (staging) or of (ccn, extract_id) (gold); the gold tables     *)
(* are unique on (extract_id, ccn, measure_code), the staging tables are    *)
(* not: `dup` says that staged rows repeat a (ccn, measure_code).           *)

Months == 1 .. NumMonths              \* the extract_ids that have files
Workers == 1 .. NumWorkers            \* the threads that can call process_month

SUPPRESSION_FOOTNOTES == {"9", "10", "11", "12", "13", "14", "15"}

\* args.workers = min(max(args.workers, 1), 4)
ClampWorkers(n) == IF n < 1 THEN 1 ELSE IF n > MAX_WORKERS THEN MAX_WORKERS ELSE n

\* a row of a CSV file or of a staging table: the score the measure is read from
\* (four_quarter_avg, adjusted_score) and its footnotes, '' for none
RawRow(score, footnotes) == <<[score |-> score, footnotes |-> footnotes]>>

CodesOf(t) == IF t = "mds" THEN MDS_CODES \cup {OTHER_CODE} ELSE CLAIMS_CODES

NoRows(t) == [ccn \in Ccns |-> [code \in CodesOf(t) |-> NoRow]]
NoStaged(t) == [rows |-> NoRows(t), dup |-> FALSE]
NoFile == <<>>

IsEmptyRows(rows) == \A ccn \in DOMAIN rows : \A code \in DOMAIN rows[ccn] : rows[ccn][code] = NoRow

\* the footnotes a file carries for a row: q1..q4 and the average (MDS), one (claims)
FootnotesOf(t, sup) ==
    IF t = "mds" THEN (IF sup THEN <<"", "9", "", "", "">> ELSE <<"", "", "", "", "1">>)
    ELSE (IF sup THEN <<"10">> ELSE <<"">>)

\* the CSV file of a month, as load_mds_dataframe / load_claims_dataframe return it
FileOf(sc, t, p, dup) ==
    <<[rows |-> [ccn \in Ccns |-> [code \in CodesOf(t) |->
                    LET row == SourceRow(sc, ccn, p, code)
                    IN IF row = NoRow THEN NoRow
                       ELSE RawRow(row[1].value, FootnotesOf(t, row[1].has_suppression))]],
       dup |-> dup]>>

\* transform_extract_to_gold: COALESCE(footnote, '') IN ('9', ..., '15'), ORed over the
\* footnotes of the row
HasSuppression(raw) == \E i \in DOMAIN raw.footnotes : raw.footnotes[i] \in SUPPRESSION_FOOTNOTES

GoldRow(raw) == IF raw = NoRow THEN NoRow ELSE Row(raw[1].score, HasSuppression(raw[1]))

\* the database as process_month sees it
Database(m, c, e, st) == [mds |-> m, claims |-> c, extracts |-> e, staging |-> st]

\* DELETE FROM staging.nh_quality_mds_raw / nh_quality_claims_raw WHERE extract_id = %s
delete_extract_from_staging(db, eid) ==
    [db EXCEPT !.staging = [t \in {"mds", "claims"} |->
                               [db.staging[t] EXCEPT ![eid] = NoStaged(t)]]]

\* DELETE FROM <gold table> WHERE extract_id = %s
DeleteExtract(table, eid) ==
    [k \in DOMAIN table |->
        IF k[2] = eid THEN [code \in DOMAIN table[k] |-> NoRow] ELSE table[k]]

\* as delete_extract_from_gold, without the DELETE FROM gold.nh_quality_extracts
delete_extract_from_goldRows(db, eid) ==
    [db EXCEPT !.mds = DeleteExtract(db.mds, eid),
               !.claims = DeleteExtract(db.claims, eid)]

delete_extract_from_gold(db, eid) ==
    [db EXCEPT !.mds = DeleteExtract(db.mds, eid),
               !.claims = DeleteExtract(db.claims, eid),
               !.extracts = db.extracts \ {eid}]

\* COPY staging.<table> FROM STDIN: the rows of the file are added to the table
\* (if df.empty: return 0)
copy_to_staging(db, t, eid, file) ==
    LET old == db.staging[t][eid]
        clash == \E ccn \in Ccns : \E code \in CodesOf(t) :
                    old.rows[ccn][code] # NoRow /\ file.rows[ccn][code] # NoRow
        new == [rows |-> [ccn \in Ccns |-> [code \in CodesOf(t) |->
                            IF file.rows[ccn][code] # NoRow THEN file.rows[ccn][code]
                            ELSE old.rows[ccn][code]]],
                dup |-> old.dup \/ file.dup \/ clash]
    IN IF IsEmptyRows(file.rows) THEN db
       ELSE [db EXCEPT !.staging[t][eid] = new]

\* INSERT INTO gold ... SELECT ... FROM staging WHERE extract_id = %s violates the
\* unique key of the gold table when the staged rows repeat a (ccn, measure_code)
TransformRaises(db, eid) == db.staging.mds[eid].dup \/ db.staging.claims[eid].dup

\* DELETE FROM gold WHERE extract_id = %s; INSERT INTO gold ... FROM staging WHERE
\* extract_id = %s
InsertExtract(table, staged, eid) ==
    [k \in DOMAIN table |->
        IF k[2] = eid THEN [code \in DOMAIN table[k] |-> GoldRow(staged.rows[k[1]][code])]
        ELSE table[k]]

\* transform_extract_to_gold(conn, extract_id), committed; gold.nh_quality_extracts
\* gets the extract_id of the staged rows (FULL OUTER JOIN of the two GROUP BYs)
transform_extract_to_gold(db, eid) ==
    LET staged == \E t \in {"mds", "claims"} : ~IsEmptyRows(db.staging[t][eid].rows)
    IN [db EXCEPT !.mds = InsertExtract(db.mds, db.staging.mds[eid], eid),
                  !.claims = InsertExtract(db.claims, db.staging.claims[eid], eid),
                  !.extracts = IF staged THEN db.extracts \cup {eid} ELSE db.extracts]

\* get_connection: thread_local.conn is kept unless it is closed.  A connection is
\* "none" (not yet made), "open", or "aborted": open, its transaction aborted by a
\* failed statement, so that every further statement raises until a rollback
get_connection(conn) == IF conn = "none" THEN "open" ELSE conn

\* process_month(db_url, extract_id, mds_file, claims_file, force) run to its end on a
\* thread whose connection is st.conn: the database, the connection and the result
process_month(st, eid, files, force) ==
    LET conn == get_connection(st.conn)
        skip == ~force /\ eid \in st.db.extracts
        d1 == delete_extract_from_staging(st.db, eid)
        d2 == IF force THEN delete_extract_from_gold(d1, eid) ELSE d1
        d3 == IF files.mds # NoFile THEN copy_to_staging(d2, "mds", eid, files.mds[1]) ELSE d2
        d4 == IF files.claims # NoFile
              THEN copy_to_staging(d3, "claims", eid, files.claims[1]) ELSE d3
    IN IF conn = "aborted" THEN [db |-> st.db, conn |-> conn, result |-> "error"]
       ELSE IF skip THEN [db |-> st.db, conn |-> conn, result |-> "skipped"]
       ELSE IF TransformRaises(d4, eid)
            THEN [db |-> d4, conn |-> "aborted", result |-> "error"]
       ELSE [db |-> delete_extract_from_staging(transform_extract_to_gold(d4, eid), eid),
             conn |-> conn, result |-> "ok"]

\* sorted(S) of a set of extract_ids
RECURSIVE Sorted(_)
Sorted(S) ==
    IF S = {} THEN <<>>
    ELSE LET least == CHOOSE x \in S : \A y \in S : x <= y
         IN <<least>> \o Sorted(S \ {least})

\* as ToProcess, without `args.force or`
ToProcessUnforced(months, force, loaded) ==
    Sorted({eid \in DOMAIN months : eid \notin loaded})

\* to_process = [eid for eid in extract_ids if args.force or eid not in loaded]
ToProcess(months, force, loaded) ==
    Sorted({eid \in DOMAIN months : force \/ eid \notin loaded})

\* for extract_id in to_process: process_month(...) on the main thread
RECURSIVE SequentialRun(_, _, _, _)
SequentialRun(st, todo, months, force) ==
    IF todo = <<>> THEN st
    ELSE LET r == process_month(st, Head(todo), months[Head(todo)], force)
         IN SequentialRun([db |-> r.db, conn |-> r.conn], Tail(todo), months, force)

IdleWorker == [pc |-> "idle", extract_id |-> 0, conn |-> "none"]
NoIngest ==
    [pc |-> "off", force |-> FALSE, workers |-> 1, months |-> <<>>, to_process |-> <<>>,
     queue |-> <<>>, calls |-> [eid \in Extracts |-> 0], results |-> <<>>,
     at_start |-> <<>>]

EmptyStaging == [t \in {"mds", "claims"} |-> [eid \in Extracts |-> NoStaged(t)]]

\* the extract_ids a gold table has rows of
ExtractsOf(table) ==
    {k[2] : k \in {x \in DOMAIN table : \E code \in DOMAIN table[x] : table[x][code] # NoRow}}

\* no ingestion is running: the staging tables are empty, and gold.nh_quality_extracts
\* lists the extracts the gold tables hold
IngestIdle ==
    /\ staging = EmptyStaging
    /\ extracts = ExtractsOf(mds) \cup ExtractsOf(claims)
    /\ ingest = NoIngest
    /\ worker = [w \in Workers |-> IdleWorker]

mainVars == <<defs, crid_monthly, pc, args, now, executed, tableAtStart, history, started,
              weights_read, validation>>

CurrentDb == Database(mds, claims, extracts, staging)

\* the database becomes db
Commit(db) ==
    /\ mds' = db.mds
    /\ claims' = db.claims
    /\ extracts' = db.extracts
    /\ staging' = db.staging

\* main(): the month map, the work list, and the executor (or the loop) started
IngestMain ==
    /\ ingest.pc = "start"
    /\ LET todo == ToProcess(ingest.months, ingest.force, extracts)
       IN ingest' = [ingest EXCEPT !.to_process = todo, !.queue = todo,
                                   !.at_start = CurrentDb,
                                   !.workers = ClampWorkers(ingest.workers),
                                   !.pc = IF todo = <<>> THEN "finished" ELSE "running"]
    /\ UNCHANGED <<mds, claims, extracts, staging, worker>>
    /\ UNCHANGED mainVars

\* a free thread of the pool (the main thread when workers = 1) starts the next
\* process_month call
TakeTask(w) ==
    /\ ingest.pc = "running"
    /\ w <= ingest.workers
    /\ worker[w].pc = "idle"
    /\ ingest.queue # <<>>
    /\ LET eid == Head(ingest.queue)
       IN /\ worker' = [worker EXCEPT ![w] = [pc |-> "get_connection", extract_id |-> eid,
                                               conn |-> worker[w].conn]]
          /\ ingest' = [ingest EXCEPT !.queue = Tail(ingest.queue),
                                      !.calls[eid] = ingest.calls[eid] + 1]
    /\ UNCHANGED <<mds, claims, extracts, staging>>
    /\ UNCHANGED mainVars

\* process_month returns: result['error'], result['skipped'], or neither
Return(w, result) ==
    /\ worker' = [worker EXCEPT ![w].pc = "idle", ![w].extract_id = 0]
    /\ ingest' = [ingest EXCEPT !.results = (worker[w].extract_id :> result) @@ ingest.results]

\* the exception of a failed statement is caught; the connection is not rolled back
Raise(w) ==
    /\ worker' = [worker EXCEPT ![w].pc = "idle", ![w].extract_id = 0, ![w].conn = "aborted"]
    /\ ingest' = [ingest EXCEPT !.results = (worker[w].extract_id :> "error") @@ ingest.results]

\* conn = get_connection(db_url)
GetConnection(w) ==
    /\ worker[w].pc = "get_connection"
    /\ worker' = [worker EXCEPT ![w].conn = get_connection(worker[w].conn),
                                ![w].pc = IF ingest.force THEN "delete_staging"
                                          ELSE "get_loaded_extracts"]
    /\ UNCHANGED <<mds, claims, extracts, staging, ingest>>
    /\ UNCHANGED mainVars

\* if not force: loaded = get_loaded_extracts(conn); skip when extract_id in loaded
GetLoadedExtracts(w) ==
    /\ worker[w].pc = "get_loaded_extracts"
    /\ IF worker[w].conn = "aborted" THEN Raise(w)
       ELSE IF worker[w].extract_id \in extracts THEN Return(w, "skipped")
       ELSE /\ worker' = [worker EXCEPT ![w].pc = "delete_staging"]
            /\ UNCHANGED ingest
    /\ UNCHANGED <<mds, claims, extracts, staging>>
    /\ UNCHANGED mainVars

\* delete_extract_from_staging(conn, extract_id), before the load
DeleteStaging(w) ==
    /\ worker[w].pc = "delete_staging"
    /\ IF worker[w].conn = "aborted"
       THEN Raise(w) /\ UNCHANGED <<mds, claims, extracts, staging>>
       ELSE /\ Commit(delete_extract_from_staging(CurrentDb, worker[w].extract_id))
            /\ worker' = [worker EXCEPT ![w].pc = IF ingest.force THEN "delete_gold"
                                                  ELSE "copy_mds"]
            /\ UNCHANGED ingest
    /\ UNCHANGED mainVars

\* if force: delete_extract_from_gold(conn, extract_id)
DeleteGold(w) ==
    /\ worker[w].pc = "delete_gold"
    /\ Commit(delete_extract_from_gold(CurrentDb, worker[w].extract_id))
    /\ worker' = [worker EXCEPT ![w].pc = "copy_mds"]
    /\ UNCHANGED ingest
    /\ UNCHANGED mainVars

\* if mds_file: copy_mds_to_staging(conn, load_mds_dataframe(...))
CopyMds(w) ==
    /\ worker[w].pc = "copy_mds"
    /\ LET eid == worker[w].extract_id
           file == ingest.months[eid].mds
       IN Commit(IF file = NoFile THEN CurrentDb
                 ELSE copy_to_staging(CurrentDb, "mds", eid, file[1]))
    /\ worker' = [worker EXCEPT ![w].pc = "copy_claims"]
    /\ UNCHANGED ingest
    /\ UNCHANGED mainVars

\* if claims_file: copy_claims_to_staging(conn, load_claims_dataframe(...))
CopyClaims(w) ==
    /\ worker[w].pc = "copy_claims"
    /\ LET eid == worker[w].extract_id
           file == ingest.months[eid].claims
       IN Commit(IF file = NoFile THEN CurrentDb
                 ELSE copy_to_staging(CurrentDb, "claims", eid, file[1]))
    /\ worker' = [worker EXCEPT ![w].pc = "transform"]
    /\ UNCHANGED ingest
    /\ UNCHANGED mainVars

\* transform_extract_to_gold(conn, extract_id): one transaction, committed at its end
\* or left aborted by the statement that failed
Transform(w) ==
    /\ worker[w].pc = "transform"
    /\ IF TransformRaises(CurrentDb, worker[w].extract_id)
       THEN Raise(w) /\ UNCHANGED <<mds, claims, extracts, staging>>
       ELSE /\ Commit(transform_extract_to_gold(CurrentDb, worker[w].extract_id))
            /\ worker' = [worker EXCEPT ![w].pc = "cleanup"]
            /\ UNCHANGED ingest
    /\ UNCHANGED mainVars

\* delete_extract_from_staging(conn, extract_id), after the transform; return result
Cleanup(w) ==
    /\ worker[w].pc = "cleanup"
    /\ Commit(delete_extract_from_staging(CurrentDb, worker[w].extract_id))
    /\ Return(w, "ok")
    /\ UNCHANGED mainVars

\* every call has returned (the loop ends, the executor shuts down)
IngestDone ==
    /\ ingest.pc = "running"
    /\ ingest.queue = <<>>
    /\ \A w \in Workers : worker[w].pc = "idle"
    /\ ingest' = [ingest EXCEPT !.pc = "finished"]
    /\ UNCHANGED <<mds, claims, extracts, staging, worker>>
    /\ UNCHANGED mainVars

----------------------------------------------------------------------------
(* main(): one run of the command line *)

NoTable == [exists |-> FALSE, rows |-> {}]
EmptyTable == [exists |-> TRUE, rows |-> {}]
NoArgs == [volatility_window |-> 0, validate |-> FALSE, dry_run |-> FALSE]

WindowArgs == {2, 3, 4, 5}
ArgLines ==
    {[volatility_window |-> w, validate |-> FALSE, dry_run |-> FALSE] : w \in WindowArgs}
    \cup {[volatility_window |-> DEFAULT_WINDOW, validate |-> TRUE, dry_run |-> FALSE],
          [volatility_window |-> DEFAULT_WINDOW + 2, validate |-> TRUE, dry_run |-> FALSE],
          [volatility_window |-> DEFAULT_WINDOW, validate |-> FALSE, dry_run |-> TRUE]}

\* as ArgparseAccepts, without choices
ArgparseAcceptsAny(a) == TRUE

\* type=int, choices=[3, 4]: parse_args() exits on any other value
ArgparseAccepts(a) == a.volatility_window \in WINDOW_CHOICES

\* run_validation(), query 2: ROUND(AVG(crid_value), 4) WHERE crid_value IS NOT NULL,
\* rounded here to the unit the column keeps
mean_crid(rows) ==
    LET scored == {r \in rows : NotNull(r.crid_value)}
    IN IF scored = {} THEN NULL
       ELSE V(RoundDiv(SetSum(scored, [r \in scored |-> r.crid_value[1]]),
                       Cardinality(scored)))

\* dist['mean_crid'] is not None and abs(float(dist['mean_crid'])) > 0.5
MeanCridWarning(rows) ==
    LET mean == mean_crid(rows) IN NotNull(mean) /\ 2 * Abs(mean[1]) > ColUnit

\* run_validation(), query 5: the null_reason of a row WHERE crid_value IS NULL
NullReason(r) ==
    LET has(flag) == \E i \in DOMAIN r.flags : r.flags[i] = flag
    IN IF has("INCOMPLETE_MEASURES") /\ has("SMALL_STATE") THEN "Both: incomplete + small state"
       ELSE IF has("INCOMPLETE_MEASURES") THEN "Incomplete measures"
       ELSE IF has("SMALL_STATE") THEN "Small state (<10 facilities)"
       ELSE "Other/Unknown"

\* run_validation(), query 7: the rows WHERE used_in_crid = TRUE
QueryWeights(d) == {r \in d : r.used_in_crid = TRUE}

NoValidation ==
    [ran |-> FALSE, raised |-> FALSE, returned |-> FALSE, warning |-> FALSE,
     null_reasons |-> {}]

\* what run_validation prints and returns when none of its queries raises
ValidationReport(rows) ==
    [ran |-> TRUE, raised |-> FALSE, returned |-> TRUE,
     warning |-> MeanCridWarning(rows),
     null_reasons |-> {NullReason(r) : r \in {x \in rows : IsNull(x.crid_value)}}]

\* no run of materialize_crid.py has started
MainIdle ==
    /\ crid_monthly = NoTable
    /\ pc = "idle"
    /\ args = NoArgs
    /\ now = 0
    /\ executed = <<>>
    /\ tableAtStart = crid_monthly
    /\ history = <<>>
    /\ started = 0
    /\ weights_read = <<>>
    /\ validation = NoValidation

Init ==
    /\ \E sc \in Scenarios :
          /\ mds = MdsOf(sc)
          /\ claims = ClaimsOf(sc)
          /\ defs = DefsOf(sc.cfg)
    /\ MainIdle
    /\ IngestIdle

\* the command is run
Invoke(a) ==
    /\ pc = "idle"
    /\ started < MaxRuns
    /\ started' = started + 1
    /\ args' = a
    /\ now' = now + 1
    /\ executed' = <<>>
    /\ tableAtStart' = crid_monthly
    /\ pc' = "parse_args"
    /\ UNCHANGED <<mds, claims, defs, crid_monthly, history>>
    /\ UNCHANGED <<weights_read, validation>>
    /\ UNCHANGED ingestVars

\* parser.parse_args(), and the --dry-run branch, which prints a file and returns
ParseArgs ==
    /\ pc = "parse_args"
    /\ pc' = IF ~ArgparseAccepts(args) THEN "usage_error"
             ELSE IF args.dry_run THEN "done"
             ELSE "connect"
    /\ UNCHANGED <<mds, claims, defs, crid_monthly, args, now, executed, tableAtStart,
                   history, started>>
    /\ UNCHANGED <<weights_read, validation>>
    /\ UNCHANGED ingestVars

\* conn = get_connection(args.db_url), outside the try block
Connect(ok) ==
    /\ pc = "connect"
    /\ pc' = IF ~ok THEN "failed"
             ELSE IF args.validate THEN "run_validation"
             ELSE "create_schema"
    /\ UNCHANGED <<mds, claims, defs, crid_monthly, args, now, executed, tableAtStart,
                   history, started>>
    /\ UNCHANGED <<weights_read, validation>>
    /\ UNCHANGED ingestVars

\* create_schema(conn); a failed statement raises, and conn.close() rolls back
CreateSchema(ok) ==
    /\ pc = "create_schema"
    /\ executed' = Append(executed, "CREATE SCHEMA")
    /\ pc' = IF ok THEN "drop_and_create_table" ELSE "failed"
    /\ UNCHANGED <<mds, claims, defs, crid_monthly, args, now, tableAtStart, history, started>>
    /\ UNCHANGED <<weights_read, validation>>
    /\ UNCHANGED ingestVars

\* as DropAndCreateTable, with CREATE TABLE IF NOT EXISTS and no DROP
DropAndCreateTableNoDrop(ok) ==
    /\ pc = "drop_and_create_table"
    /\ executed' = Append(executed, "DROP AND CREATE TABLE")
    /\ crid_monthly' = IF ok THEN [exists |-> TRUE, rows |-> crid_monthly.rows] ELSE crid_monthly
    /\ pc' = IF ok THEN "materialize_crid" ELSE "failed"
    /\ UNCHANGED <<mds, claims, defs, args, now, tableAtStart, history, started>>
    /\ UNCHANGED <<weights_read, validation>>
    /\ UNCHANGED ingestVars

\* drop_and_create_table(conn): DROP TABLE IF EXISTS; CREATE TABLE; conn.commit()
DropAndCreateTable(ok) ==
    /\ pc = "drop_and_create_table"
    /\ executed' = Append(executed, "DROP AND CREATE TABLE")
    /\ crid_monthly' = IF ok THEN EmptyTable ELSE crid_monthly
    /\ pc' = IF ok THEN "materialize_crid" ELSE "failed"
    /\ UNCHANGED <<mds, claims, defs, args, now, tableAtStart, history, started>>
    /\ UNCHANGED <<weights_read, validation>>
    /\ UNCHANGED ingestVars

\* rows = materialize_crid(conn, volatility_window=args.volatility_window)
MaterializeCrid(ok) ==
    /\ pc = "materialize_crid"
    /\ IF args.volatility_window \notin WINDOW_CHOICES
       THEN \* raise ValueError before any statement
            /\ pc' = "failed"
            /\ UNCHANGED <<crid_monthly, executed, history, weights_read>>
       ELSE /\ executed' = Append(executed, "INSERT")
            /\ IF ok
               THEN LET window_preceding == args.volatility_window - 1
                        rows == InsertedRows(mds, claims, defs, window_preceding, now)
                    IN /\ crid_monthly' = [exists |-> TRUE, rows |-> crid_monthly.rows \cup rows]
                       /\ history' = Append(history,
                              [window |-> args.volatility_window,
                               output |-> crid_monthly'.rows])
                       /\ weights_read' = Append(weights_read, measure_weights(defs))
                       /\ pc' = "create_indexes"
               ELSE /\ pc' = "failed"
                    /\ UNCHANGED <<crid_monthly, history, weights_read>>
    /\ UNCHANGED <<mds, claims, defs, args, now, tableAtStart, started>>
    /\ UNCHANGED validation
    /\ UNCHANGED ingestVars

\* create_indexes(conn)
CreateIndexes(ok) ==
    /\ pc = "create_indexes"
    /\ executed' = Append(executed, "CREATE INDEX")
    /\ pc' = IF ok THEN "run_validation" ELSE "failed"
    /\ UNCHANGED <<mds, claims, defs, crid_monthly, args, now, tableAtStart, history, started>>
    /\ UNCHANGED <<weights_read, validation>>
    /\ UNCHANGED ingestVars

\* as RunValidation, with the mean-CRID anomaly raised as an error
RunValidationFatal(ok) ==
    /\ pc = "run_validation"
    /\ executed' = Append(executed, "SELECT")
    /\ IF ok /\ crid_monthly.exists
       THEN /\ validation' = [ValidationReport(crid_monthly.rows) EXCEPT
                                 !.returned = ~MeanCridWarning(crid_monthly.rows)]
            /\ weights_read' = Append(weights_read, QueryWeights(defs))
            /\ pc' = IF MeanCridWarning(crid_monthly.rows) THEN "failed" ELSE "done"
       ELSE /\ validation' = [NoValidation EXCEPT !.ran = TRUE, !.raised = TRUE]
            /\ UNCHANGED weights_read
            /\ pc' = "failed"
    /\ UNCHANGED <<mds, claims, defs, crid_monthly, args, now, tableAtStart, history, started>>
    /\ UNCHANGED ingestVars

\* run_validation(conn): eight SELECTs, a report and return True; a query that fails
\* (ok = FALSE, or the table is missing) raises out of main()
RunValidation(ok) ==
    /\ pc = "run_validation"
    /\ executed' = Append(executed, "SELECT")
    /\ IF ok /\ crid_monthly.exists
       THEN /\ validation' = ValidationReport(crid_monthly.rows)
            /\ weights_read' = Append(weights_read, QueryWeights(defs))
            /\ pc' = "done"
       ELSE /\ validation' = [NoValidation EXCEPT !.ran = TRUE, !.raised = TRUE]
            /\ UNCHANGED weights_read
            /\ pc' = "failed"
    /\ UNCHANGED <<mds, claims, defs, crid_monthly, args, now, tableAtStart, history, started>>
    /\ UNCHANGED ingestVars

\* the process ends (finally: conn.close())
Exit ==
    /\ pc \in {"done", "failed", "usage_error"}
    /\ pc' = "idle"
    /\ args' = NoArgs
    /\ executed' = <<>>
    /\ tableAtStart' = crid_monthly
    /\ UNCHANGED <<mds, claims, defs, crid_monthly, now, history, started>>
    /\ weights_read' = <<>>
    /\ validation' = NoValidation
    /\ UNCHANGED ingestVars

Next ==
    \/ \E a \in ArgLines : Invoke(a)
    \/ ParseArgs
    \/ \E ok \in BOOLEAN : Connect(ok)
    \/ \E ok \in BOOLEAN : CreateSchema(ok)
    \/ \E ok \in BOOLEAN : DropAndCreateTable(ok)
    \/ \E ok \in BOOLEAN : MaterializeCrid(ok)
    \/ \E ok \in BOOLEAN : CreateIndexes(ok)
    \/ \E ok \in BOOLEAN : RunValidation(ok)
    \/ Exit

Spec == Init /\ [][Next]_vars

----------------------------------------------------------------------------
(* The materialization between ingestions of later months *)

\* a gold table with the extracts up to n only
UpTo(table, n) ==
    [k \in DOMAIN table |->
        IF k[2] <= n THEN table[k] ELSE [code \in DOMAIN table[k] |-> NoRow]]

\* histories the months come from: cohorts above and at the minimum, a probe facility
\* that goes incomplete, lacks a measure, or is absent
AppendScenarios ==
    {Scenario(NumPeriods, NumBulk, "spread", "spread",
              [p \in Extracts |-> St("complete", "")], "ok"),
     Scenario(NumPeriods, NumBulk - 1, "spread", "spread",
              [p \in Extracts |-> IF p = 3 THEN St("missing", "552") ELSE St("complete", "")],
              "ok"),
     Scenario(NumPeriods, NumBulk, "flat", "spread",
              [p \in Extracts |-> IF p % 2 = 0 THEN St("absent", "") ELSE St("complete", "")],
              "ok")}

InitAppend ==
    /\ \E sc \in AppendScenarios, n \in 1 .. NumPeriods - 1 :
          /\ mds = UpTo(MdsOf(sc), n)
          /\ claims = UpTo(ClaimsOf(sc), n)
          /\ defs = DefsOf(sc.cfg)
    /\ MainIdle
    /\ IngestIdle

\* ingest_fast.py is run on the files of the month after the last one loaded, between
\* two runs of materialize_crid.py: one process_month call, taken whole
LoadLaterExtract(sc) ==
    /\ pc = "idle"
    /\ ingest.pc = "off"
    /\ extracts # {}
    /\ LET eid == (CHOOSE x \in extracts : \A y \in extracts : y <= x) + 1
           files == [mds |-> FileOf(sc, "mds", eid, FALSE),
                     claims |-> FileOf(sc, "claims", eid, FALSE)]
       IN /\ eid <= NumPeriods
          /\ SetSum(Extracts, ingest.calls) < MaxAppends
          /\ Commit(process_month([db |-> CurrentDb, conn |-> "none"], eid, files, FALSE).db)
          /\ ingest' = [ingest EXCEPT !.calls[eid] = ingest.calls[eid] + 1]
    /\ UNCHANGED worker
    /\ UNCHANGED mainVars

NextAppend ==
    \/ Next
    \/ \E sc \in AppendScenarios : LoadLaterExtract(sc)

SpecAppend == InitAppend /\ [][NextAppend]_vars

----------------------------------------------------------------------------
(* Validation of a table that something else wrote *)

\* metrics.crid_monthly as a transform that does not centre the scores leaves it (the
\* table outlives the run that wrote it): every crid_value one unit too high
Uncentred(rows) == {[r EXCEPT !.crid_value = SqlAdd(r.crid_value, V(ColUnit))] : r \in rows}

ValidateScenarios ==
    {Scenario(2, NumBulk, "spread", "spread", [p \in Extracts |-> St("complete", "")], "ok"),
     Scenario(1, NumBulk, "flat", "spread", OnePeriod(St("missing", "410")), "ok"),
     Scenario(1, NumBulk - 2, "spread", "spread", OnePeriod(St("complete", "")), "ok")}

InitValidate ==
    /\ \E sc \in ValidateScenarios :
          /\ mds = MdsOf(sc)
          /\ claims = ClaimsOf(sc)
          /\ defs = DefsOf(sc.cfg)
          /\ LET rows == InsertedRows(MdsOf(sc), ClaimsOf(sc), DefsOf(sc.cfg),
                                      DEFAULT_WINDOW - 1, 0)
             IN crid_monthly \in {NoTable, EmptyTable, [exists |-> TRUE, rows |-> rows],
                                  [exists |-> TRUE, rows |-> Uncentred(rows)]}
    /\ pc = "idle"
    /\ args = NoArgs
    /\ now = 0
    /\ executed = <<>>
    /\ tableAtStart = crid_monthly
    /\ history = <<>>
    /\ started = 0
    /\ weights_read = <<>>
    /\ validation = NoValidation
    /\ IngestIdle

SpecValidate == InitValidate /\ [][Next]_vars

----------------------------------------------------------------------------
(* The materialization while another session changes the weight table *)

\* gold.nh_measure_definitions after an UPDATE of the weights
OtherDefs ==
    {DefRow("410", V(1), TRUE), DefRow("453", V(2), TRUE), DefRow("407", V(1), TRUE),
     DefRow("409", V(1), TRUE), DefRow("551", V(2), TRUE), DefRow("552", V(1), TRUE),
     DefRow(OTHER_CODE, NULL, FALSE)}
WeightTables == {GoodDefs, OtherDefs, DefsOf("missing_410")}

WeightsScenarios ==
    {Scenario(2, NumBulk, "spread", "spread", [p \in Extracts |-> St("complete", "")], "ok"),
     Scenario(1, NumBulk, "spread", "flat", OnePeriod(St("missing", "410")), "ok")}

InitWeights ==
    /\ \E sc \in WeightsScenarios :
          /\ mds = MdsOf(sc)
          /\ claims = ClaimsOf(sc)
          /\ defs = DefsOf(sc.cfg)
    /\ MainIdle
    /\ IngestIdle

\* another session commits a change of the weights, at any moment of the run
ChangeWeights(d) ==
    /\ d # defs
    /\ defs' = d
    /\ UNCHANGED <<mds, claims, crid_monthly, pc, args, now, executed, tableAtStart,
                   history, started, weights_read, validation>>
    /\ UNCHANGED ingestVars

NextWeights ==
    \/ Next
    \/ \E d \in WeightTables : ChangeWeights(d)

SpecWeights == InitWeights /\ [][NextWeights]_vars

----------------------------------------------------------------------------
(* An ingestion run: ingest_fast.py --workers n [--force] on the files of   *)
(* NumMonths months                                                         *)

\* what the files hold, and what an earlier ingestion of month 1 left in gold
IngestScenario ==
    Scenario(NumMonths, 2, "spread", "spread",
             [p \in Extracts |-> IF p = 2 THEN St("supval", "551") ELSE St("complete", "")],
             "ok")
EarlierScenario ==
    Scenario(1, 1, "flat", "flat", [p \in Extracts |-> St("complete", "")], "ok")

\* the files of a month: both, the MDS file with a repeated row, or no claims file
FileKinds == {"good", "dup", "no_claims"}
MonthFiles(kind, p) ==
    [mds |-> FileOf(IngestScenario, "mds", p, kind = "dup"),
     claims |-> IF kind = "no_claims" THEN NoFile
                ELSE FileOf(IngestScenario, "claims", p, FALSE)]
FileConfigs ==
    {cfg \in [Months -> FileKinds] : Cardinality({p \in Months : cfg[p] # "good"}) <= 1}

InitIngest ==
    /\ \E cfg \in FileConfigs, force \in BOOLEAN, n \in {0, 1, 2}, loaded \in {0, 1} :
          /\ mds = UpTo(MdsOf(EarlierScenario), loaded)
          /\ claims = UpTo(ClaimsOf(EarlierScenario), loaded)
          /\ extracts = 1 .. loaded
          /\ ingest = [NoIngest EXCEPT !.pc = "start", !.force = force, !.workers = n,
                                       !.months = [p \in Months |-> MonthFiles(cfg[p], p)]]
    /\ defs = GoodDefs
    /\ staging = EmptyStaging
    /\ worker = [w \in Workers |-> IdleWorker]
    /\ MainIdle

NextIngest ==
    \/ IngestMain
    \/ \E w \in Workers :
          \/ TakeTask(w)
          \/ GetConnection(w)
          \/ GetLoadedExtracts(w)
          \/ DeleteStaging(w)
          \/ DeleteGold(w)
          \/ CopyMds(w)
          \/ CopyClaims(w)
          \/ Transform(w)
          \/ Cleanup(w)
    \/ IngestDone

SpecIngest == InitIngest /\ [][NextIngest]_vars

----------------------------------------------------------------------------
(* What the claims speak of, read off the input snapshot and the table *)

KeyOf(r) == <<r.ccn, r.extract_id>>
HasFlag(r, flag) == \E i \in DOMAIN r.flags : r.flags[i] = flag

\* the observation of a measure in the Measure Source
SrcRow(k, code) == IF code \in MDS_CODES THEN mds[k][code] ELSE claims[k][code]
SrcValue(k, code) == IF SrcRow(k, code) = NoRow THEN NULL ELSE SrcRow(k, code)[1].value
\* present and unsuppressed
SrcUsable(k, code) ==
    /\ SrcRow(k, code) # NoRow
    /\ NotNull(SrcRow(k, code)[1].value)
    /\ ~SrcRow(k, code)[1].has_suppression
SrcComplete(k) == \A code \in CRID_CODES : SrcUsable(k, code)
\* the measure `code` has no observation, the other five are present and unsuppressed
SrcLacksOnly(k, code) ==
    /\ SrcRow(k, code) = NoRow
    /\ \A other \in CRID_CODES \ {code} : SrcUsable(k, other)

States == {StateOf(ccn) : ccn \in Ccns}
Cohort(st, p) == {ccn \in Ccns : StateOf(ccn) = st /\ SrcComplete(<<ccn, p>>)}
SrcComposite(w, k, codes) ==
    WeightedSum(codes, w, [measure |-> [code \in CRID_CODES |-> SrcValue(k, code)]])
\* the population standard deviation of a composite over a cohort is > 0:
\* two of its facilities have different composites
Spread(w, cohort, p, codes) ==
    Cardinality({x \in {SrcComposite(w, <<ccn, p>>, codes) : ccn \in cohort} : NotNull(x)}) >= 2

\* the (state, extract) groups that have rows in the table
RowGroups == {<<r.state, r.extract_id>> : r \in crid_monthly.rows}

CohortSize == Table([g \in RowGroups |-> Cardinality(Cohort(g[1], g[2]))])

CohortFacts ==
    LET w == weight_values(defs)
    IN Table([g \in RowGroups |->
          LET cohort == Cohort(g[1], g[2])
          IN [size |-> Cardinality(cohort),
              mds_spread |-> Spread(w, cohort, g[2], MDS_CODES),
              claims_spread |-> Spread(w, cohort, g[2], CLAIMS_CODES)]])

\* materialize_crid() has just inserted and committed: the table holds the output of
\* this run. (The table changes nowhere else but in drop_and_create_table, which
\* empties it, so every row a state can hold is a row of such a state.)
JustMaterialized == pc = "create_indexes"

----------------------------------------------------------------------------
(* C1: in every row of the table, crid_value is non-NULL if and only if    *)
(* the facility-period is complete, its (state, extract) cohort holds at   *)
(* least 10 complete facilities, and the cohort's standard deviations of   *)
(* both composites are > 0.                                                *)
C1_Gating ==
    JustMaterialized =>
        LET facts == CohortFacts
        IN \A r \in crid_monthly.rows :
              LET g == facts[<<r.state, r.extract_id>>]
              IN NotNull(r.crid_value) <=>
                    /\ SrcComplete(KeyOf(r))
                    /\ g.size >= MIN_COHORT
                    /\ g.mds_spread
                    /\ g.claims_spread

\* a cohort of exactly 10 scored facilities beside an incomplete, unscored one
C1_Witness ==
    /\ \E r \in crid_monthly.rows :
          /\ NotNull(r.crid_value)
          /\ Cardinality(Cohort(r.state, r.extract_id)) = MIN_COHORT
    /\ \E r \in crid_monthly.rows :
          ~SrcComplete(KeyOf(r)) /\ IsNull(r.crid_value) /\ r.state = "AA"

(* C2: when a step of a full run fails, the table still holds the rows it  *)
(* held before the run (the previous materialization's output).            *)
C2_AllOrNothing ==
    (pc = "failed" /\ tableAtStart.rows # {}) => crid_monthly.rows = tableAtStart.rows

\* the facility-periods with an observation of one of the 6 measures
SourceKeys == {k \in Keys : \E code \in CRID_CODES : SrcRow(k, code) # NoRow}

(* C3: after a materialization the table holds exactly one record for every *)
(* (ccn, extract_id) with an observation of one of the 6 measures, be it a *)
(* quality or a utilization measure, and no other record.                   *)
C3_OneRecordPerSourceKey ==
    JustMaterialized =>
        /\ {KeyOf(r) : r \in crid_monthly.rows} = SourceKeys
        /\ \A r1 \in crid_monthly.rows, r2 \in crid_monthly.rows :
              KeyOf(r1) = KeyOf(r2) => r1 = r2

\* the weight table lacks an active weight for one of the 6 codes, or has two
ActiveWeights(code) == {r \in defs : r.measure_code = code /\ r.used_in_crid = TRUE}
BadWeights == \E code \in CRID_CODES : Cardinality(ActiveWeights(code)) # 1

(* C4: with an active weight missing or duplicated for one of the 6         *)
(* measure codes, no materialization inserts: the run fails instead.        *)
C4_BadWeightsRejected == BadWeights => (history = <<>> /\ crid_monthly.rows = {})

\* two materializations with the same window.  (No action of Spec changes the
\* gold tables: all materializations of a behaviour read the same snapshot.)
SameRun(h1, h2) == h1.window = h2.window
WithoutCreatedAt(r) == [col \in DOMAIN r \ {"created_at"} |-> r[col]]

(* C5, as stated: two materializations of the same input snapshot with the  *)
(* same window leave tables identical in every column of every row.         *)
C5_IdempotentEveryColumn ==
    \A i \in DOMAIN history, j \in DOMAIN history :
        SameRun(history[i], history[j]) => history[i].output = history[j].output
(* C5, amended: two materializations of the same input snapshot with the   *)
(* same window leave tables with as many rows, identical in every column   *)
(* but the created_at timestamp (and the serial id, which the model does   *)
(* not carry).                                                             *)
C5_IdempotentButCreatedAt ==
    \A i \in DOMAIN history, j \in DOMAIN history :
        SameRun(history[i], history[j]) =>
            /\ {WithoutCreatedAt(r) : r \in history[i].output}
                  = {WithoutCreatedAt(r) : r \in history[j].output}
            /\ Cardinality(history[i].output) = Cardinality(history[j].output)
C5_Witness ==
    /\ Len(history) >= 2
    /\ SameRun(history[1], history[2])
    /\ history[1].output # {}
    /\ crid_monthly.rows = history[2].output

(* C6: a run whose volatility window is neither 3 nor 4 executes no        *)
(* statement and leaves the table as it was.                               *)
C6_InvalidWindowRejected ==
    (pc # "idle" /\ args.volatility_window \notin WINDOW_CHOICES) =>
        /\ pc \in {"parse_args", "usage_error"}
        /\ executed = <<>>
        /\ crid_monthly = tableAtStart
C6_Witness ==
    /\ pc = "usage_error"
    /\ args.volatility_window \notin WINDOW_CHOICES
    /\ crid_monthly.rows # {}

(* C7: in a (state, extract) with fewer than 10 complete facilities every  *)
(* row, complete or not, has crid_value NULL and carries SMALL_STATE.      *)
C7_SmallCohort ==
    JustMaterialized =>
        LET size == CohortSize
        IN \A r \in crid_monthly.rows :
              size[<<r.state, r.extract_id>>] < MIN_COHORT =>
                  IsNull(r.crid_value) /\ HasFlag(r, "SMALL_STATE")
\* a cohort of 8 or 9 complete facilities with a complete and an incomplete row
C7_Witness ==
    \E r1 \in crid_monthly.rows, r2 \in crid_monthly.rows :
        /\ r1.state = r2.state /\ r1.extract_id = r2.extract_id
        /\ Cardinality(Cohort(r1.state, r1.extract_id)) \in {MIN_COHORT - 2, MIN_COHORT - 1}
        /\ SrcComplete(KeyOf(r1)) /\ ~SrcComplete(KeyOf(r2))
        /\ HasFlag(r1, "SMALL_STATE") /\ HasFlag(r2, "SMALL_STATE")

(* C8: a facility-period that lacks the observation of exactly one of the  *)
(* 6 measures, whichever, has a row with measures_present = 5, flag        *)
(* INCOMPLETE_MEASURES and crid_value NULL.                                *)
C8_MissingMeasure ==
    JustMaterialized =>
        \A k \in Keys :
            (\E code \in CRID_CODES : SrcLacksOnly(k, code)) =>
                \E r \in crid_monthly.rows :
                    /\ KeyOf(r) = k
                    /\ r.measures_present = 5
                    /\ HasFlag(r, "INCOMPLETE_MEASURES")
                    /\ IsNull(r.crid_value)
                    /\ IsNull(r.mds_composite) /\ IsNull(r.claims_utilization)
\* each of the 6 measures is the missing one of some row, in a cohort that is large enough
C8_Witness ==
    \A code \in CRID_CODES :
        \E r \in crid_monthly.rows :
            /\ SrcLacksOnly(KeyOf(r), code)
            /\ r.measures_present = 5
            /\ (r.state = "AA" => ~HasFlag(r, "SMALL_STATE"))

OwnExtracts(ccn) == {r.extract_id : r \in {x \in crid_monthly.rows : x.ccn = ccn}}
\* the last W extracts of the facility up to p
Window(ccn, p, W) ==
    {q \in OwnExtracts(ccn) :
        q <= p /\ Cardinality({x \in OwnExtracts(ccn) : q <= x /\ x <= p}) <= W}

ExpectedPct == <<0, 1667, 3333, 5000, 6667, 8333, 10000>>

(* C10: on every row completeness_pct is round(measures_present / 6 * 100,  *)
(* 2) and is never NULL, and the row is complete (no INCOMPLETE_MEASURES)   *)
(* exactly when measures_present = 6.                                       *)
C10_Completeness ==
    JustMaterialized =>
        \A r \in crid_monthly.rows :
            /\ r.measures_present \in 0 .. NUM_MEASURES
            /\ r.completeness_pct = V(ExpectedPct[r.measures_present + 1])
            /\ (~HasFlag(r, "INCOMPLETE_MEASURES")) <=> (r.measures_present = NUM_MEASURES)
            /\ SrcComplete(KeyOf(r)) <=> (r.measures_present = NUM_MEASURES)
\* rows with 4 and with 5 measures present, percentages that need rounding, and no CRID
C10_Witness ==
    \E r1 \in crid_monthly.rows, r2 \in crid_monthly.rows :
        /\ r1.measures_present = 4 /\ r1.completeness_pct = V(6667) /\ IsNull(r1.crid_value)
        /\ r2.measures_present = 6 /\ r2.completeness_pct = V(10000) /\ IsNull(r2.crid_value)

----------------------------------------------------------------------------
\* the measures of a facility-period that the source flags suppressed
SrcSuppressed(k, code) == SrcRow(k, code) # NoRow /\ SrcRow(k, code)[1].has_suppression

(* C11: on every row measures_present is the number of the 6 codes with a  *)
(* non-NULL, unsuppressed value, and measures_suppressed the number of the *)
(* 6 codes flagged suppressed, with or without a value.                    *)
C11_MeasureCounts ==
    JustMaterialized =>
        \A r \in crid_monthly.rows :
            /\ r.measures_present =
                  Cardinality({code \in CRID_CODES : SrcUsable(KeyOf(r), code)})
            /\ r.measures_suppressed =
                  Cardinality({code \in CRID_CODES : SrcSuppressed(KeyOf(r), code)})
\* a measure that has a value and is flagged suppressed
C11_Witness ==
    \E r \in crid_monthly.rows, code \in CRID_CODES :
        /\ SrcSuppressed(KeyOf(r), code) /\ NotNull(SrcValue(KeyOf(r), code))
        /\ r.measures_suppressed = 1 /\ r.measures_present = 5

\* the one active weight of a measure code, as a number
WeightOf(code) == (CHOOSE r \in ActiveWeights(code) : TRUE).crid_weight[1]
Val(k, code) == SrcValue(k, code)[1]

(* C12: with one active weight per code, mds_composite and                 *)
(* claims_utilization are NULL on every row that is not complete, and on a *)
(* complete row they are w410*m410 + w453*m453 + w407*m407 + w409*m409 and *)
(* w551*m551 + w552*m552.                                                  *)
C12_Composites ==
    (JustMaterialized /\ ~BadWeights) =>
        \A r \in crid_monthly.rows :
            LET k == KeyOf(r)
            IN IF SrcComplete(k)
               THEN /\ r.mds_composite = WholeToColumn(V(
                          WeightOf("410") * Val(k, "410") + WeightOf("453") * Val(k, "453")
                          + WeightOf("407") * Val(k, "407") + WeightOf("409") * Val(k, "409")))
                    /\ r.claims_utilization = WholeToColumn(V(
                          WeightOf("551") * Val(k, "551") + WeightOf("552") * Val(k, "552")))
               ELSE IsNull(r.mds_composite) /\ IsNull(r.claims_utilization)
\* complete rows with different composites beside an incomplete row, in a small cohort
C12_Witness ==
    /\ ~BadWeights
    /\ \E r1 \in crid_monthly.rows, r2 \in crid_monthly.rows, r3 \in crid_monthly.rows :
          /\ NotNull(r1.mds_composite) /\ NotNull(r2.mds_composite)
          /\ r1.mds_composite # r2.mds_composite
          /\ r1.claims_utilization # r2.claims_utilization
          /\ ~SrcComplete(KeyOf(r3)) /\ r3.measures_present = 5
          /\ HasFlag(r1, "SMALL_STATE")

(* C13: each of the six component score columns is NULL when its measure   *)
(* is missing or flagged suppressed, and holds the measure's value when    *)
(* the measure is present and unsuppressed.                                *)
C13_ComponentScores ==
    JustMaterialized =>
        \A r \in crid_monthly.rows, code \in CRID_CODES :
            r.measure_score[code] =
                IF SrcUsable(KeyOf(r), code)
                THEN WholeToColumn(SrcValue(KeyOf(r), code)) ELSE NULL

C15_VolatilityNullWithCrid ==
    JustMaterialized =>
        \A r \in crid_monthly.rows : IsNull(r.crid_value) => IsNull(r.crid_volatility)
\* a row without CRID whose window holds an earlier row with CRID
C15_Witness ==
    /\ JustMaterialized
    /\ \E r \in crid_monthly.rows, earlier \in crid_monthly.rows :
          /\ r.ccn = earlier.ccn
          /\ earlier.extract_id < r.extract_id
          /\ earlier.extract_id \in Window(r.ccn, r.extract_id, args.volatility_window)
          /\ NotNull(earlier.crid_value) /\ NotNull(earlier.crid_volatility)
          /\ IsNull(r.crid_value) /\ IsNull(r.crid_volatility)

\* (composite - mean) / population stddev of a composite over the complete
\* facilities of the state and extract of k, from the gold tables
CohortZ(w, k, codes) ==
    LET members == Cohort(StateOf(k[1]), k[2]) \X {k[2]}
        vals == NonNullValues(SeqOfKeys(members),
                              [j \in members |-> ToFixed(SrcComposite(w, j, codes))])
    IN SqlDiv(SqlSub(ToFixed(SrcComposite(w, k, codes)), SqlAvg(vals)), SqlStddevPop(vals))

(* C16: on every row with non-NULL crid_value, crid_value equals           *)
(* mds_z_score minus claims_z_score, and each z-score is (composite minus  *)
(* cohort mean) divided by the cohort's population standard deviation.     *)
C16_ScoreIdentity ==
    JustMaterialized =>
        LET w == weight_values(defs)
        IN \A r \in crid_monthly.rows :
              NotNull(r.crid_value) =>
                  /\ r.mds_z_score = ToColumn(CohortZ(w, KeyOf(r), MDS_CODES))
                  /\ r.claims_z_score = ToColumn(CohortZ(w, KeyOf(r), CLAIMS_CODES))
                  /\ r.crid_value = SqlSub(r.mds_z_score, r.claims_z_score)

\* the columns of a record that the materialization derives
DerivedColumns ==
    {"ccn", "extract_id", "mds_composite", "claims_utilization", "state_facility_count",
     "state_mds_mean", "state_mds_stddev", "state_claims_mean", "state_claims_stddev",
     "mds_z_score", "claims_z_score", "crid_value", "crid_volatility", "flags"}
Derived(r) == [col \in DerivedColumns |-> r[col]]

(* C17: when later months have been loaded between two materializations    *)
(* with the same window, every record of the earlier one is in the later   *)
(* one with the same composites, cohort statistics, z-scores, crid_value,  *)
(* crid_volatility and flags.                                              *)
C17_EarlierPeriodsUnchanged ==
    \A i \in DOMAIN history, j \in DOMAIN history :
        (i < j /\ SameRun(history[i], history[j])) =>
            \A r \in history[i].output :
                \E r2 \in history[j].output : Derived(r2) = Derived(r)

\* the later materialization has the records of a month the earlier one did not
\* have, the earlier one records with a CRID and a volatility
C17_Witness ==
    /\ Len(history) >= 2
    /\ SameRun(history[1], history[2])
    /\ \E r \in history[1].output : NotNull(r.crid_value) /\ NotNull(r.crid_volatility)
    /\ \E r2 \in history[2].output :
          /\ NotNull(r2.crid_value)
          /\ \A r \in history[1].output : r.extract_id < r2.extract_id

\* what validation reports as out of the ordinary: the mean CRID far from zero, rows
\* without CRID that are neither incomplete nor of a small state
Anomaly(v) == v.warning \/ "Other/Unknown" \in v.null_reasons

(* C18: a validation pass, alone or at the end of a full run, changes no   *)
(* row of the output table or of an input table; it fails only when one of *)
(* its queries raises, and when it reports an anomaly it still completes   *)
(* and returns success.                                                    *)
C18_ValidationReadOnlyNeverFatal ==
    [][pc = "run_validation" =>
          /\ mds' = mds /\ claims' = claims /\ defs' = defs
          /\ crid_monthly' = crid_monthly
          /\ pc' = "failed" => validation'.raised
          /\ Anomaly(validation') => (pc' = "done" /\ validation'.returned)]_vars

\* --validate on a table whose mean CRID is far from zero: warned, and completed
C18_Witness ==
    /\ pc = "done"
    /\ args.validate
    /\ validation.warning
    /\ validation.returned
    /\ crid_monthly = tableAtStart

\* the crid_weight the weight table, as a run read it, gives a measure
WeightRead(read, code) ==
    LET rows == {r \in read : r.measure_code = code}
    IN IF rows = {} THEN NULL ELSE (CHOOSE r \in rows : TRUE).crid_weight

\* the records of the table come from the INSERT of the current run
RunInserted == ~args.validate /\ weights_read # <<>>

\* every record of the run has the composites that the weights of the run's first
\* read of the weight table give
OneWeightVector ==
    RunInserted =>
        \A r \in crid_monthly.rows :
            LET k == KeyOf(r)
                w(code) == WeightRead(weights_read[1], code)
                term(code) == SqlMul(w(code), SrcValue(k, code))
            IN SrcComplete(k) =>
                  /\ r.mds_composite =
                        WholeToColumn(SqlAdd(SqlAdd(term("410"), term("453")),
                                             SqlAdd(term("407"), term("409"))))
                  /\ r.claims_utilization =
                        WholeToColumn(SqlAdd(term("551"), term("552")))

RowsOfExtract(table, eid) == [k \in {x \in DOMAIN table : x[2] = eid} |-> table[k]]

\* the database after the months of the work list are processed one after the other
SequentialOutcome ==
    SequentialRun([db |-> ingest.at_start, conn |-> "none"], ingest.to_process,
                  ingest.months, ingest.force).db

WorkList == {ingest.to_process[i] : i \in DOMAIN ingest.to_process}

(* C20: in an ingestion run no extract_id is handed to more than one       *)
(* process_month call, and when the run has finished every extract_id of   *)
(* the work list has had its call and its gold rows are those that         *)
(* processing the months sequentially leaves, whatever the interleaving of *)
(* the workers was.                                                        *)
C20_SameAsSequential ==
    /\ \A eid \in Extracts : ingest.calls[eid] <= 1
    /\ ingest.pc = "finished" =>
          LET seq == SequentialOutcome
          IN \A eid \in WorkList :
                /\ ingest.calls[eid] = 1
                /\ RowsOfExtract(mds, eid) = RowsOfExtract(seq.mds, eid)
                /\ RowsOfExtract(claims, eid) = RowsOfExtract(seq.claims, eid)

\* the rows a file gives gold for one (ccn, extract_id): none when there is no file
LoadedFrom(file, ccn, code) == IF file = NoFile THEN NoRow ELSE GoldRow(file[1].rows[ccn][code])

\* the months that gold.nh_quality_extracts listed when main() read it
RecordedAtStart == ingest.at_start.extracts

\* nothing of extract_id eid has changed since main() read the database
UntouchedSinceStart(eid) ==
    /\ RowsOfExtract(mds, eid) = RowsOfExtract(ingest.at_start.mds, eid)
    /\ RowsOfExtract(claims, eid) = RowsOfExtract(ingest.at_start.claims, eid)
    /\ \A t \in {"mds", "claims"} : staging[t][eid] = ingest.at_start.staging[t][eid]
    /\ eid \in extracts

\* the gold rows of extract_id eid are those of its files
ReloadedFromFiles(eid) ==
    /\ \A ccn \in Ccns :
          /\ \A code \in DOMAIN mds[<<ccn, eid>>] :
                mds[<<ccn, eid>>][code] = LoadedFrom(ingest.months[eid].mds, ccn, code)
          /\ \A code \in DOMAIN claims[<<ccn, eid>>] :
                claims[<<ccn, eid>>][code] = LoadedFrom(ingest.months[eid].claims, ccn, code)

C21_ForcedWitness ==
    /\ ingest.pc = "finished"
    /\ ingest.force
    /\ 1 \in RecordedAtStart
    /\ ingest.results[1] = "ok"
    /\ RowsOfExtract(mds, 1) # RowsOfExtract(ingest.at_start.mds, 1)

\* the record carries one of the two completeness flags
HasNullReasonFlag(r) == HasFlag(r, "INCOMPLETE_MEASURES") \/ HasFlag(r, "SMALL_STATE")

\* the records the validation breakdown counts: WHERE crid_value IS NULL
NullCridRows == {r \in crid_monthly.rows : IsNull(r.crid_value)}

\* a complete record of a cohort of at least 10 complete facilities all of which
\* have the same value of one of the two composites
ZeroDeviation(r, facts) ==
    LET g == facts[<<r.state, r.extract_id>>]
    IN /\ SrcComplete(KeyOf(r))
       /\ g.size >= MIN_COHORT
       /\ ~(g.mds_spread /\ g.claims_spread)

THREE_REASONS ==
    {"Both: incomplete + small state", "Incomplete measures", "Small state (<10 facilities)"}

(* C22, as stated: every record with crid_value NULL carries               *)
(* INCOMPLETE_MEASURES, SMALL_STATE or both, so the validation breakdown   *)
(* of NULL-CRID reasons has the three reasons incomplete, small state and  *)
(* both and no other.                                                      *)
C22_ThreeNullReasons ==
    /\ \A r \in NullCridRows : HasNullReasonFlag(r)
    /\ validation.null_reasons \subseteq THREE_REASONS

(* C22, amended: every record with crid_value NULL carries                 *)
(* INCOMPLETE_MEASURES, SMALL_STATE or both, or is a complete record of a  *)
(* cohort of at least 10 complete facilities in which a composite has the  *)
(* standard deviation zero, and then it carries neither flag; the          *)
(* validation breakdown has the three reasons and Other/Unknown, the last  *)
(* exactly when the table holds a record of that kind.                     *)
C22_NullReasons ==
    /\ JustMaterialized =>
          LET facts == CohortFacts
          IN \A r \in NullCridRows : HasNullReasonFlag(r) # ZeroDeviation(r, facts)
    /\ validation.null_reasons \subseteq THREE_REASONS \cup {"Other/Unknown"}
    /\ (validation.returned /\ ~validation.raised) =>
          LET facts == CohortFacts
          IN "Other/Unknown" \in validation.null_reasons
                <=> \E r \in NullCridRows : ZeroDeviation(r, facts)

\* validation has reported Other/Unknown beside a reason a flag gives
C22_Witness ==
    /\ validation.returned
    /\ "Other/Unknown" \in validation.null_reasons
    /\ validation.null_reasons \cap THREE_REASONS # {}
    /\ \E r \in NullCridRows : ~HasNullReasonFlag(r) /\ r.measures_present = NUM_MEASURES

(* C23: after a materialization,                                           *)
(* a record carries SMALL_STATE if and only if its (state, extract)        *)
(* has fewer than 10 complete facilities, none at all included; such a     *)
(* record is scored with no statistics from elsewhere: its z-scores and    *)
(* its crid_value are NULL, and the cohort size it shows is the one of its *)
(* own (state, extract), NULL when that has no complete facility.          *)
C23_SmallStateIff ==
    JustMaterialized =>
        LET size == CohortSize
        IN \A r \in crid_monthly.rows :
              LET n == size[<<r.state, r.extract_id>>]
              IN /\ HasFlag(r, "SMALL_STATE") <=> n < MIN_COHORT
                 /\ n < MIN_COHORT =>
                       /\ IsNull(r.mds_z_score)
                       /\ IsNull(r.claims_z_score)
                       /\ IsNull(r.crid_value)
                       /\ r.state_facility_count = IF n = 0 THEN NULL ELSE V(n)

\* a record of a (state, extract) without a complete facility carries SMALL_STATE
\* while the same extract has a cohort of exactly 10 whose records do not
C23_Witness ==
    \E r1 \in crid_monthly.rows, r2 \in crid_monthly.rows :
        /\ r1.extract_id = r2.extract_id
        /\ Cardinality(Cohort(r1.state, r1.extract_id)) = 0
        /\ HasFlag(r1, "SMALL_STATE")
        /\ Cardinality(Cohort(r2.state, r2.extract_id)) = MIN_COHORT
        /\ ~HasFlag(r2, "SMALL_STATE")

COMPLETENESS_FLAGS == {"INCOMPLETE_MEASURES", "SMALL_STATE"}

(* C24: a record whose crid_value is NULL carries no magnitude, volatility *)
(* or outlier flag: its flags are among INCOMPLETE_MEASURES and            *)
(* SMALL_STATE, also when one of its z-scores is not NULL; and no record   *)
(* carries a flag twice.                                                   *)
C24_NullRaisesNoFlag ==
    \A r \in crid_monthly.rows :
       /\ IsNull(r.crid_value) =>
             \A i \in DOMAIN r.flags : r.flags[i] \in COMPLETENESS_FLAGS
       /\ \A i \in DOMAIN r.flags, j \in DOMAIN r.flags : r.flags[i] = r.flags[j] => i = j

\* an unscored record without a flag whose MDS z-score is beyond 2 while its claims
\* z-score is NULL, beside an unscored record that carries SMALL_STATE
C24_Witness ==
    /\ \E r \in crid_monthly.rows :
          /\ IsNull(r.crid_value)
          /\ IsNull(r.claims_z_score)
          /\ NotNull(r.mds_z_score)
          /\ Abs(r.mds_z_score[1]) > 2 * ColUnit
          /\ r.flags = <<>>
    /\ \E r \in crid_monthly.rows : IsNull(r.crid_value) /\ r.flags = <<"SMALL_STATE">>

\* the peer-context columns of a record
PeerContext(r) ==
    <<r.state_facility_count, r.state_mds_mean, r.state_mds_stddev,
      r.state_claims_mean, r.state_claims_stddev>>

(* C25: the peer-context columns of a record (cohort facility count,       *)
(* cohort means and standard deviations) are NULL whenever its (state,     *)
(* extract) cohort is a small state: fewer than 10 complete facilities.    *)
C25_PeerContextNullIfSmall ==
    LET size == CohortSize
    IN \A r \in crid_monthly.rows :
          size[<<r.state, r.extract_id>>] < MIN_COHORT =>
              PeerContext(r) = <<NULL, NULL, NULL, NULL, NULL>>

\* a full run (neither --validate nor --dry-run) is between its first statement and
\* its successful end
InFullRun ==
    /\ ~args.validate
    /\ ~args.dry_run
    /\ pc \in {"create_schema", "drop_and_create_table", "materialize_crid",
               "create_indexes", "run_validation", "done"}

\* the complete output of the current run
NewOutput == InsertedRows(mds, claims, defs, args.volatility_window - 1, now)

(* C26: at every moment of a full run that can still end, or has ended,    *)
(* successfully, the committed table, which is what a concurrent reader    *)
(* sees, exists and holds either the complete output of the previous run   *)
(* or the complete output of this run: never no table, no rows or a part   *)
(* of the rows.                                                            *)
C26_ReadersSeeOldOrNew ==
    (InFullRun /\ tableAtStart.rows # {}) =>
        /\ crid_monthly.exists
        /\ crid_monthly.rows = tableAtStart.rows \/ crid_monthly.rows = NewOutput

\* gold holds a row of extract_id eid
HasGoldRows(eid) == eid \in ExtractsOf(mds) \cup ExtractsOf(claims)

\* the months a process_month call is working on, past its deletions and before the
\* commit of transform_extract_to_gold
BeingLoaded ==
    {worker[w].extract_id : w \in {x \in Workers : worker[x].pc \in {"copy_mds", "copy_claims", "transform"}}}

(* C27: an extract_id is in gold.nh_quality_extracts only together with    *)
(* its gold rows: every recorded extract has gold rows, and they are       *)
(* either all the rows of its files (MDS and Claims) or, if recorded       *)
(* before the run, the rows it had then; while a call is between its      *)
(* deletions and the commit of its transform, its extract is not recorded. *)
C27_RecordedWithRows ==
    ingest.pc \in {"running", "finished"} =>
        /\ \A eid \in extracts :
              /\ HasGoldRows(eid)
              /\ \/ eid \in Months /\ ReloadedFromFiles(eid)
                 \/ /\ eid \in RecordedAtStart
                    /\ RowsOfExtract(mds, eid) = RowsOfExtract(ingest.at_start.mds, eid)
                    /\ RowsOfExtract(claims, eid) = RowsOfExtract(ingest.at_start.claims, eid)
        /\ BeingLoaded \cap extracts = {}

\* --force: the transform of the recorded month 1 has just committed its new rows with
\* its entry, while another call has deleted month 2 and not yet transformed it
C27_Witness ==
    /\ ingest.pc = "running"
    /\ ingest.force
    /\ 1 \in RecordedAtStart
    /\ \E w \in Workers : worker[w].pc = "cleanup" /\ worker[w].extract_id = 1
    /\ 1 \in extracts
    /\ ReloadedFromFiles(1)
    /\ RowsOfExtract(mds, 1) # RowsOfExtract(ingest.at_start.mds, 1)
    /\ 2 \in BeingLoaded

\* the files of month eid load without an error of their own
ValidFiles(eid) ==
    LET files == ingest.months[eid]
    IN /\ files.mds = NoFile \/ ~files.mds[1].dup
       /\ files.claims = NoFile \/ ~files.claims[1].dup

(* C28: a failure while processing one month is confined to that month:    *)
(* when the run has finished, the month whose files are not valid has an   *)
(* error in its result, and every month of the work list whose own files   *)
(* are valid is loaded, with the rows of its files in gold, whichever      *)
(* thread processed it and whatever that thread processed before.          *)
C28_FailureConfined ==
    ingest.pc = "finished" =>
        \A eid \in WorkList :
            /\ eid \in DOMAIN ingest.results
            /\ ~ValidFiles(eid) => ingest.results[eid] = "error"
            /\ ValidFiles(eid) =>
                  /\ ingest.results[eid] = "ok"
                  /\ eid \in extracts
                  /\ ReloadedFromFiles(eid)

(* C29: on every record measures_present and measures_suppressed are each  *)
(* between 0 and 6 and add up to at most 6, a measure that is flagged      *)
(* suppressed not being counted as present even when it carries a value;   *)
(* a complete record (all 6 present) has measures_suppressed = 0.          *)
C29_CountsWithinSix ==
    \A r \in crid_monthly.rows :
       /\ r.measures_present \in 0 .. NUM_MEASURES
       /\ r.measures_suppressed \in 0 .. NUM_MEASURES
       /\ r.measures_present + r.measures_suppressed <= NUM_MEASURES
       /\ (r.measures_present = NUM_MEASURES \/ ~HasFlag(r, "INCOMPLETE_MEASURES")) =>
             r.measures_suppressed = 0

\* a record with a measure that has a value and is flagged suppressed, counted as
\* suppressed only, beside a complete record
C29_Witness ==
    /\ \E r \in crid_monthly.rows, code \in CRID_CODES :
          /\ SrcSuppressed(KeyOf(r), code)
          /\ NotNull(SrcValue(KeyOf(r), code))
          /\ r.measures_present + r.measures_suppressed = NUM_MEASURES
          /\ r.measures_suppressed > 0
    /\ \E r \in crid_monthly.rows :
          r.measures_present = NUM_MEASURES /\ r.measures_suppressed = 0

\* the records of the facility of r in the volatility window of r that have a CRID
ScoredInWindow(r) ==
    {x \in crid_monthly.rows :
        /\ x.ccn = r.ccn
        /\ x.extract_id \in Window(r.ccn, r.extract_id, args.volatility_window)
        /\ NotNull(x.crid_value)}

(* C30: crid_volatility is non-NULL on every record whose crid_value is    *)
(* non-NULL; when the record's own value is the only non-NULL crid_value   *)
(* of its window (the facility's first extract, or earlier records without *)
(* a CRID), the volatility is 0 and the record does not carry              *)
(* HIGH_VOLATILITY.                                                        *)
C30_VolatilityOfOne ==
    JustMaterialized =>
        \A r \in crid_monthly.rows :
            NotNull(r.crid_value) =>
                /\ NotNull(r.crid_volatility)
                /\ ScoredInWindow(r) = {r} =>
                      /\ r.crid_volatility = V(0)
                      /\ ~HasFlag(r, "HIGH_VOLATILITY")

\* a first record of a facility, and a later record of a facility whose window holds
\* only records without a CRID beside it, both with volatility 0
C30_Witness ==
    /\ JustMaterialized
    /\ \E r \in crid_monthly.rows, before \in crid_monthly.rows :
          /\ before.ccn = r.ccn
          /\ before.extract_id < r.extract_id
          /\ before.extract_id \in Window(r.ccn, r.extract_id, args.volatility_window)
          /\ IsNull(before.crid_value)
          /\ ScoredInWindow(r) = {r}
          /\ r.crid_volatility = V(0)
    /\ \E r \in crid_monthly.rows :
          /\ Window(r.ccn, r.extract_id, args.volatility_window) = {r.extract_id}
          /\ r.crid_volatility = V(0)

====
